---- MODULE Spec2Model ----
(***************************************************************************)
(* Climate dashboard (final_dashboard_with_ui_upgrade.py): the module-level *)
(* load of the global table, the seasonal aggregate, and the Dash callbacks *)
(* switch_tab, refresh_hemi_checklist, update_global, export_csv and        *)
(* update_hemi_graph.                                                       *)
(*                                                                         *)
(* Numbers of the tables are exact rationals <<n, d>> with d > 0; the       *)
(* missing value (pandas NaN) is <<0, 0>>.  A data frame is a record        *)
(* [columns, rows]: the ordered column names and the rows, each a function  *)
(* from column name to cell.                                                *)
(***************************************************************************)
EXTENDS Integers, Sequences, FiniteSets, TLC

VARIABLES
    pc,            \* "start" | "ready" | "crashed": module import stage
    csv_global,    \* content of merged_global.csv (rows, in file order)
    csv_hemi,      \* content of hemispheric_merged.csv (rows, in file order)
    raw_global,    \* module global raw_global
    seasonal_avg,  \* module global seasonal_avg
    tab,           \* the tab rendered into tabs-content ("none" before the page loads)
    selected,      \* global-checklist value
    year_range,    \* global-slider value <<lo, hi>>
    mode,          \* view-mode value
    hemi,          \* hemi-hemi-dropdown value
    hemi_value,    \* hemi-checklist value
    last           \* what the most recent call returned (or raised)

vars == <<pc, csv_global, csv_hemi, raw_global, seasonal_avg, tab,
          selected, year_range, mode, hemi, hemi_value, last>>

-----------------------------------------------------------------------------
(* Bounds of the model *)

\* longest indicator selection the checklist actions pick
MaxSel == 2
\* most rows of a merged_global.csv drawn for the load specification
MaxRows == 3
\* most rows of a hemispheric_merged.csv drawn for the animation specification
MaxHemiRows == 3
\* how far below 1 and above 12 tag_season is called
MonthSlack == 2
\* how many clicks of the export button are told apart
MaxClicks == 1
\* longest indicator selection update_global is called on directly
MaxCallSel == 4

-----------------------------------------------------------------------------
(* Numbers *)

NaN == <<0, 0>>

IsNaN(v) == v[2] = 0

Abs(n) == IF n < 0 THEN -n ELSE n

RECURSIVE GCD(_, _)
GCD(a, b) == IF b = 0 THEN a ELSE GCD(b, a % b)

\* the rational n/d (d > 0) in lowest terms
Rat(n, d) == LET g == GCD(Abs(n), d) IN <<n \div g, d \div g>>

Num(k) == <<k, 1>>

RatAdd(a, b) == Rat(a[1] * b[2] + b[1] * a[2], a[2] * b[2])

\* a + b, not reduced
RawAdd(a, b) == <<a[1] * b[2] + b[1] * a[2], a[2] * b[2]>>

RECURSIVE RatSum(_)
RatSum(s) == IF s = <<>> THEN Num(0) ELSE RawAdd(Head(s), RatSum(Tail(s)))

\* the sum t of n numbers divided by n, in lowest terms
RatOver(t, n) == Rat(t[1], t[2] * n)

\* the mean of the numbers present
MeanPresent(present) ==
    IF present = <<>> THEN NaN ELSE RatOver(RatSum(present), Len(present))

\* pandas mean: missing values are skipped, the mean of nothing is missing
Mean(s) == MeanPresent(SelectSeq(s, LAMBDA v : ~IsNaN(v)))

Digit(d) ==
    CASE d = 0 -> "0" [] d = 1 -> "1" [] d = 2 -> "2" [] d = 3 -> "3"
      [] d = 4 -> "4" [] d = 5 -> "5" [] d = 6 -> "6" [] d = 7 -> "7"
      [] d = 8 -> "8" [] d = 9 -> "9"

\* str(n) / astype(str) of a non-negative integer
RECURSIVE IntStr(_)
IntStr(n) == IF n < 10 THEN Digit(n) ELSE IntStr(n \div 10) \o Digit(n % 10)

-----------------------------------------------------------------------------
(* Sequences and data frames *)

Range(s) == {s[i] : i \in 1..Len(s)}

\* the function f over 1..n as the tuple of its values
AsSeq(f) == f \o <<>>

Map(s, F(_)) == AsSeq([i \in 1..Len(s) |-> F(s[i])])

\* the sequences of distinct elements of S of length at most n
RECURSIVE DistinctSeqs(_, _)
DistinctSeqs(S, n) ==
    IF n = 0 THEN {<<>>}
    ELSE LET shorter == DistinctSeqs(S, n - 1)
         IN  shorter \cup UNION {{Append(s, x) : x \in S \ Range(s)} : s \in shorter}

\* s ordered by Less, elements that Less does not order staying in the order of s
SortBy(s, Less(_, _)) ==
    LET n == Len(s)
        Pos(i) == 1 + Cardinality({j \in 1..n :
                        Less(s[j], s[i]) \/ (~Less(s[i], s[j]) /\ j < i)})
    IN  AsSeq([p \in 1..n |-> s[CHOOSE i \in 1..n : Pos(i) = p]])

\* the distinct values of K over s, each at its first appearance
FirstKeys(s, K(_)) ==
    LET idx == SelectSeq([i \in 1..Len(s) |-> i],
                         LAMBDA i : \A j \in 1..(i - 1) : K(s[j]) # K(s[i]))
    IN  AsSeq([p \in 1..Len(idx) |-> K(s[idx[p]])])

\* df[col] = F(row): a new column is appended, an existing one overwritten
assign(df, col, F(_)) ==
    [columns |-> IF col \in Range(df.columns) THEN df.columns
                 ELSE Append(df.columns, col),
     rows |-> AsSeq([i \in 1..Len(df.rows) |-> (col :> F(df.rows[i])) @@ df.rows[i]])]

\* df[mask]: the rows satisfying P, same columns
filter(df, P(_)) == [columns |-> df.columns, rows |-> SelectSeq(df.rows, P)]

\* df[cols]: the named columns, in that order
project(df, cols) ==
    [columns |-> cols,
     rows |-> AsSeq([i \in 1..Len(df.rows) |-> [c \in Range(cols) |-> df.rows[i][c]]])]

column(df, col) == AsSeq([i \in 1..Len(df.rows) |-> df.rows[i][col]])

-----------------------------------------------------------------------------
(* Module import: lines 12-31 *)

Seasons == {"DJF", "MAM", "JJA", "SON"}

Indicators == <<"norm_co2", "norm_land_ocean_temp", "norm_land_temp", "norm_sea_level">>

raw_mapping ==
    [norm_co2 |-> "co2_anomaly", norm_land_ocean_temp |-> "land_ocean_anomaly",
     norm_land_temp |-> "land_anomaly", norm_sea_level |-> "msl_mm"]

\* the columns of merged_global.csv the program reads
CsvColumns ==
    <<"year", "month"
    >> \o Indicators \o [i \in 1..Len(Indicators) |-> raw_mapping[Indicators[i]]]

Ok(v) == [ok |-> TRUE, val |-> v]
Raise(e) == [ok |-> FALSE, val |-> e]

\* a lookup with a default (months.get(month, "SON")) in place of the dictionary's
tag_season_default(month) ==
    CASE month \in {12, 1, 2} -> Ok("DJF")
      [] month \in {3, 4, 5} -> Ok("MAM")
      [] month \in {6, 7, 8} -> Ok("JJA")
      [] OTHER -> Ok("SON")

\* the dictionary lookup: a key outside the dictionary raises KeyError
tag_season(month) ==
    CASE month \in {12, 1, 2} -> Ok("DJF")
      [] month \in {3, 4, 5} -> Ok("MAM")
      [] month \in {6, 7, 8} -> Ok("JJA")
      [] month \in {9, 10, 11} -> Ok("SON")
      [] OTHER -> Raise("KeyError")

\* the Season -> Season_Order dictionary
SeasonOrder(s) ==
    CASE s = "DJF" -> 0 [] s = "MAM" -> 1 [] s = "JJA" -> 2 [] s = "SON" -> 3

\* position of a season label in string order, the order groupby sorts its keys in
AlphaRank(s) ==
    CASE s = "DJF" -> 0 [] s = "JJA" -> 1 [] s = "MAM" -> 2 [] s = "SON" -> 3

read_csv(file) == [columns |-> CsvColumns, rows |-> file]

\* a timestamp, written as its ISO date
Timestamp(year, month, day) ==
    IntStr(year) \o "-" \o (IF month < 10 THEN "0" ELSE "") \o IntStr(month)
                 \o "-" \o (IF day < 10 THEN "0" ELSE "") \o IntStr(day)

\* pd.to_datetime(df[["year", "month"]].assign(day=15)) of one row; a month that
\* is none of the calendar raises ValueError
to_datetime(row) ==
    IF row["month"] \in 1..12 THEN Ok(Timestamp(row["year"], row["month"], 15))
    ELSE Raise("ValueError")

\* a cell as a number: the integer columns year and month count as k/1
Numeric(row, c) == IF c \in {"year", "month", "Season_Order"} THEN Num(row[c]) ELSE row[c]

\* .mean(numeric_only=True) of one group: the mean of each value column
group_mean(group, valcols) ==
    [c \in Range(valcols) |-> Mean(Map(group, LAMBDA r : Numeric(r, c)))]

\* groupby(["year", "Season"]).mean(numeric_only=True).reset_index(): one row per
\* key, keys in sorted order (year, then the season label as a string); Date is
\* no number and is dropped
groupby_year_season_mean(df) ==
    LET Key(r) == <<r["year"], r["Season"]>>
        KeyLess(a, b) == a[1] < b[1] \/ (a[1] = b[1] /\ AlphaRank(a[2]) < AlphaRank(b[2]))
        valcols == SelectSeq(df.columns, LAMBDA c : c \notin {"year", "Season", "Date"})
        Group(k) == SelectSeq(df.rows, LAMBDA r : Key(r) = k)
        Row(k) == ("year" :> k[1]) @@ ("Season" :> k[2]) @@ group_mean(Group(k), valcols)
    IN  [columns |-> <<"year", "Season">> \o valcols,
         rows |-> Map(SortBy(FirstKeys(df.rows, Key), KeyLess), Row)]

\* the aggregate left in the order groupby gives it
sort_values_skipped(df) == df

\* .sort_values(["year", "Season_Order"])
sort_values_year_season_order(df) ==
    [columns |-> df.columns,
     rows |-> SortBy(df.rows, LAMBDA a, b :
                  a["year"] < b["year"] \/
                  (a["year"] = b["year"] /\ a["Season_Order"] < b["Season_Order"]))]

\* lines 25-31
build_seasonal_avg(df) ==
    sort_values_year_season_order(
        assign(groupby_year_season_mean(df), "Season_Order",
               LAMBDA r : SeasonOrder(r["Season"])))

EmptyFrame == [columns |-> <<>>, rows |-> <<>>]

NoCall == [kind |-> "none"]

\* lines 12-13: raw_global as read, with its Date, for a file whose months
\* to_datetime takes
load_dated(file) == assign(read_csv(file), "Date", LAMBDA r : to_datetime(r).val)

\* line 23: raw_global with its Season, for a file whose months tag_season knows
load_raw_global(file) ==
    assign(load_dated(file), "Season", LAMBDA r : tag_season(r["month"]).val)

\* lines 12-31: the import of the module.  to_datetime (line 13) or tag_season
\* (line 23) raising on a month of the file aborts the import, and no callback is
\* ever served.
Import ==
    /\ pc = "start"
    /\ IF \E i \in 1..Len(csv_global) : ~to_datetime(csv_global[i]).ok
       THEN /\ pc' = "crashed"
            /\ last' = [kind |-> "import", raised |-> "ValueError"]
            /\ UNCHANGED <<raw_global, seasonal_avg>>
       ELSE IF \E i \in 1..Len(csv_global) : ~tag_season(csv_global[i]["month"]).ok
       THEN /\ pc' = "crashed"
            /\ last' = [kind |-> "import", raised |-> "KeyError"]
            /\ UNCHANGED <<raw_global, seasonal_avg>>
       ELSE /\ pc' = "ready"
            /\ raw_global' = load_raw_global(csv_global)
            /\ seasonal_avg' = build_seasonal_avg(load_raw_global(csv_global))
            /\ last' = [kind |-> "import", raised |-> "none"]
    /\ UNCHANGED <<csv_global, csv_hemi, tab, selected, year_range, mode,
                   hemi, hemi_value>>

\* a direct call of tag_season
CallTagSeason(month) ==
    /\ pc = "ready"
    /\ last' = [kind |-> "tag_season", month |-> month, result |-> tag_season(month)]
    /\ UNCHANGED <<pc, csv_global, csv_hemi, raw_global, seasonal_avg, tab,
                   selected, year_range, mode, hemi, hemi_value>>

-----------------------------------------------------------------------------
(* update_global: lines 190-324 *)

\* the policy_events dictionary, in its insertion order
policy_events ==
    << [year |-> 1997, label |-> "Kyoto Protocol", month |-> 12],
       [year |-> 2015, label |-> "Paris Agreement", month |-> 12],
       [year |-> 2020, label |-> "COVID Drop", month |-> 4] >>

\* the mask with | in place of &
YearMask_either(df, yr) == filter(df, LAMBDA r : r["year"] >= yr[1] \/ r["year"] <= yr[2])

\* the mask (df["year"] >= year_range[0]) & (df["year"] <= year_range[1])
YearMask(df, yr) == filter(df, LAMBDA r : r["year"] >= yr[1] /\ r["year"] <= yr[2])

\* Season + " " + year.astype(str), and f"{season} {year}"
SeasonLabel(season, year) == season \o " " \o IntStr(year)

\* the axis computed only where the table has none yet
with_X_kept(use_df, md) ==
    IF "X" \in Range(use_df.columns) THEN use_df
    ELSE assign(use_df, "X",
                LAMBDA r : IF md = "Monthly" THEN r["Date"]
                           ELSE SeasonLabel(r["Season"], r["year"]))

\* line 205: the time axis X of use_df
with_X(use_df, md) ==
    assign(use_df, "X",
           LAMBDA r : IF md = "Monthly" THEN r["Date"]
                      ELSE SeasonLabel(r["Season"], r["year"]))

\* line 214: the columns of plot_df
plot_columns(sel) ==
    <<"X", "year">> \o sel \o
    Map(SelectSeq(sel, LAMBDA c : c \in DOMAIN raw_mapping), LAMBDA c : raw_mapping[c])

\* .dropna(how="all"): only the rows with every cell missing are removed
dropna_how_all(df) ==
    filter(df, LAMBDA r : \E c \in DOMAIN r : c \in {"X", "year"} \/ ~IsNaN(r[c]))

\* .dropna(): the rows with a cell missing are removed; X and year hold no number
\* that can be missing
dropna(df) ==
    filter(df, LAMBDA r : \A c \in DOMAIN r : c \in {"X", "year"} \/ ~IsNaN(r[c]))

\* lines 200-214
build_plot_df(rg, sa, sel, yr, md) ==
    LET use_df == IF md = "Monthly" THEN YearMask(rg, yr) ELSE YearMask(sa, yr)
    IN  dropna(project(with_X(use_df, md), plot_columns(sel)))

\* lines 208-211
build_hover_data(rg, sa, sel, md) ==
    LET cols == IF md = "Monthly" THEN rg.columns ELSE sa.columns
    IN  {raw_mapping[c] : c \in {d \in Range(sel) :
            d \in DOMAIN raw_mapping /\ raw_mapping[d] \in Range(cols)}}

\* pd.to_datetime(f"{year}-{month:02d}-01")
event_date(year, month) == Timestamp(year, month, 1)

\* the test with strict comparisons
monthly_event_shown_strict(year, yr) == yr[1] < year /\ year < yr[2]

\* lines 245-247: the test that places an event in Monthly mode
monthly_event_shown(year, yr) == yr[1] <= year /\ year <= yr[2]

\* the test passing whenever the frame has a row
seasonal_event_shown_any(season_label, plot_df) == plot_df.rows # <<>>

\* line 261: the test that places an event in Seasonal mode
seasonal_event_shown(season_label, plot_df) == season_label \in Range(column(plot_df, "X"))

\* lines 239-272: the annotations added to the figure, in the order added
build_annotations(plot_df, yr, md) ==
    LET Shown(e) ==
            IF md = "Monthly" THEN monthly_event_shown(e.year, yr)
            ELSE seasonal_event_shown(SeasonLabel(tag_season(e.month).val, e.year), plot_df)
        X(e) == IF md = "Monthly" THEN event_date(e.year, e.month)
                ELSE SeasonLabel(tag_season(e.month).val, e.year)
    IN  Map(SelectSeq(policy_events, Shown), LAMBDA e : [x |-> X(e), text |-> e.label])

\* lines 227-228: the two columns update_global writes into the module global
mutate_raw_global(rg) ==
    assign(assign(rg, "Season_Order", LAMBDA r : SeasonOrder(r["Season"])),
           "X", LAMBDA r : SeasonLabel(r["Season"], r["year"]))

RECURSIVE LCMSeq(_)
LCMSeq(s) ==
    IF s = <<>> THEN 1
    ELSE LET m == LCMSeq(Tail(s)) IN (Head(s)[2] * m) \div GCD(Head(s)[2], m)

RECURSIVE SumInts(_)
SumInts(s) == IF s = <<>> THEN 0 ELSE Head(s) + SumInts(Tail(s))

\* n * sum(x*y) - sum(x) * sum(y): n^2 times the covariance of two integer columns
Cross(xs, ys) ==
    Len(xs) * SumInts(AsSeq([i \in 1..Len(xs) |-> xs[i] * ys[i]])) - SumInts(xs) * SumInts(ys)

\* line 311: (col - col.mean()) / col.std().  The sample standard deviation of
\* fewer than two rows is missing and that of a constant column is 0, and either
\* way every cell becomes missing (0/0).  Otherwise the column is a positive
\* multiple of the input shifted, kept here as the input scaled to integers.
standardize(col) ==
    LET m == LCMSeq(col)
        ints == AsSeq([i \in 1..Len(col) |-> col[i][1] * (m \div col[i][2])])
    IN  IF Len(col) < 2 \/ Cross(ints, ints) = 0
        THEN [nan |-> TRUE, xs |-> <<>>]
        ELSE [nan |-> FALSE, xs |-> ints]

\* line 317: np.corrcoef(a, b)[0, 1].  It raises nothing: a missing cell, or no
\* row at all, makes the coefficient missing.  r is kept as its sign and its
\* square.
corrcoef(a, b) ==
    IF a.nan \/ b.nan
    THEN Ok([nan |-> TRUE, sign |-> 0, sq |-> NaN])
    ELSE LET sxy == Cross(a.xs, b.xs)
         IN  Ok([nan |-> FALSE,
                 sign |-> IF sxy > 0 THEN 1 ELSE IF sxy < 0 THEN -1 ELSE 0,
                 sq |-> Rat(sxy * sxy, Cross(a.xs, a.xs) * Cross(b.xs, b.xs))])

\* abs(r) > t/10, false of a missing r
AbsAbove(r, t) == ~r.nan /\ 100 * r.sq[1] > t * t * r.sq[2]

\* lines 316-322: one line of the summary
corr_text(a, b, za, zb) ==
    LET r == corrcoef(za, zb)
    IN  IF r.ok
        THEN [a |-> a, b |-> b, text |-> "r", r |-> r.val,
              strength |-> IF AbsAbove(r.val, 7) THEN "strong"
                           ELSE IF AbsAbove(r.val, 4) THEN "moderate" ELSE "weak",
              direction |-> IF ~r.val.nan /\ r.val.sign > 0 THEN "positive" ELSE "negative"]
        ELSE [a |-> a, b |-> b, text |-> "correlation unavailable"]

\* the index pairs with the loops exchanged, j outer and i inner
IndexPairs_j_outer(n) ==
    LET all == AsSeq([k \in 1..(n * n) |-> <<((k - 1) % n) + 1, ((k - 1) \div n) + 1>>])
    IN  SelectSeq(all, LAMBDA p : p[1] < p[2])

\* the index pairs of lines 313-314, i outer and j inner
IndexPairs(n) ==
    LET all == AsSeq([k \in 1..(n * n) |-> <<((k - 1) \div n) + 1, ((k - 1) % n) + 1>>])
    IN  SelectSeq(all, LAMBDA p : p[1] < p[2])

\* lines 308-322
build_corr_texts(plot_df, sel) ==
    LET z == [c \in Range(sel) |-> standardize(column(plot_df, c))]
    IN  Map(IndexPairs(Len(sel)),
            LAMBDA p : corr_text(sel[p[1]], sel[p[2]], z[sel[p[1]]], z[sel[p[2]]]))

\* what update_global returns for the tables rg (raw_global) and sa (seasonal_avg)
update_global_result(rg, sa, sel, yr, md) ==
    LET cols == IF md = "Monthly" THEN rg.columns ELSE sa.columns
        plot_df == build_plot_df(rg, sa, sel, yr, md)
    IN  IF \E c \in Range(plot_columns(sel)) \ {"X"} : c \notin Range(cols)
        THEN [kind |-> "update_global", selected |-> sel, year_range |-> yr,
              mode |-> md, raised |-> "KeyError"]
        ELSE [kind |-> "update_global", selected |-> sel, year_range |-> yr,
              mode |-> md, raised |-> "none",
              plot_df |-> plot_df,
              hover_data |-> build_hover_data(rg, sa, sel, md),
              annotations |-> build_annotations(plot_df, yr, md),
              corr_texts |-> build_corr_texts(plot_df, sel)]

\* the callback: its return value, and its write to raw_global (which a raised
\* column lookup at line 214 comes before)
update_global(sel, yr, md) ==
    LET res == update_global_result(raw_global, seasonal_avg, sel, yr, md)
    IN  /\ last' = res
        /\ raw_global' = IF res.raised = "none" THEN mutate_raw_global(raw_global)
                         ELSE raw_global

\* a direct call of update_global on the inputs the controls hold
CallUpdateGlobal ==
    /\ pc = "ready"
    /\ update_global(selected, year_range, mode)
    /\ UNCHANGED <<pc, csv_global, csv_hemi, seasonal_avg, tab, selected, year_range,
                   mode, hemi, hemi_value>>

-----------------------------------------------------------------------------
(* export_csv: lines 333-344 *)

\* the export with the upper end of the range left out
export_csv_result_hi_excluded(rg, n_clicks, yr) ==
    IF n_clicks = 0
    THEN [no_update |-> TRUE]
    ELSE [kind |-> "export_csv", no_update |-> FALSE, year_range |-> yr,
          filename |-> "filtered_climate_data.csv",
          export_df |-> filter(rg, LAMBDA r : r["year"] >= yr[1] /\ r["year"] < yr[2])]

\* n_clicks is None or 0 on the call Dash makes when the button is rendered
export_csv_result(rg, n_clicks, yr) ==
    IF n_clicks = 0
    THEN [no_update |-> TRUE]
    ELSE [kind |-> "export_csv", no_update |-> FALSE, year_range |-> yr,
          filename |-> "filtered_climate_data.csv",
          export_df |-> YearMask(rg, yr)]

export_csv(n_clicks, yr) ==
    LET res == export_csv_result(raw_global, n_clicks, yr)
    IN  /\ last' = IF res.no_update THEN last ELSE res
        /\ UNCHANGED raw_global

\* a direct call of export_csv after a click, on the range the slider holds
CallExportCsv ==
    /\ pc = "ready"
    /\ export_csv(1, year_range)
    /\ UNCHANGED <<pc, csv_global, csv_hemi, seasonal_avg, tab, selected, year_range,
                   mode, hemi, hemi_value>>

-----------------------------------------------------------------------------
(* refresh_hemi_checklist and update_hemi_graph: lines 167-179, 353-437 *)

\* the keys of options_map, in insertion order; hemi "None" is the cleared dropdown
hemi_options(h) ==
    IF h = "None" THEN <<>>
    ELSE <<"norm_" \o h \o "_co2", "norm_" \o h \o "_land",
           "norm_" \o h \o "_land_ocean", "norm_msl_" \o h>>

\* lines 167-179: the checklist's options and its value, every option ticked
refresh_hemi_checklist(h) == [options |-> hemi_options(h), value |-> hemi_options(h)]

HemiIndicators == hemi_options("north") \o hemi_options("south")

HemiColumns == <<"year", "month">> \o HemiIndicators

\* label_map.get(ind, ind)
label_map(ind) ==
    CASE ind = "norm_north_co2" -> "CO2 Anomaly (NH)"
      [] ind = "norm_north_land" -> "Land Temp (NH)"
      [] ind = "norm_north_land_ocean" -> "Land-Ocean Temp (NH)"
      [] ind = "norm_msl_north" -> "Sea Level (NH)"
      [] ind = "norm_south_co2" -> "CO2 Anomaly (SH)"
      [] ind = "norm_south_land" -> "Land Temp (SH)"
      [] ind = "norm_south_land_ocean" -> "Land-Ocean Temp (SH)"
      [] ind = "norm_msl_south" -> "Sea Level (SH)"
      [] OTHER -> ind

\* hemi.upper()
upper(h) == CASE h = "north" -> "NORTH" [] h = "south" -> "SOUTH"

template(th) == IF th = "Dark" THEN "plotly_dark" ELSE "plotly_white"

\* the per-year table with its years in the order they first appear in the file
groupby_year_mean_unsorted(df) ==
    LET Key(r) == r["year"]
        valcols == SelectSeq(df.columns, LAMBDA c : c # "year")
        Group(k) == SelectSeq(df.rows, LAMBDA r : Key(r) = k)
        Row(k) == ("year" :> k) @@ group_mean(Group(k), valcols)
    IN  [columns |-> <<"year">> \o valcols, rows |-> Map(FirstKeys(df.rows, Key), Row)]

\* line 362: groupby(["year"]).mean(numeric_only=True).reset_index(): one row per
\* year, years ascending
groupby_year_mean(df) ==
    LET Key(r) == r["year"]
        valcols == SelectSeq(df.columns, LAMBDA c : c # "year")
        Group(k) == SelectSeq(df.rows, LAMBDA r : Key(r) = k)
        Row(k) == ("year" :> k) @@ group_mean(Group(k), valcols)
    IN  [columns |-> <<"year">> \o valcols,
         rows |-> Map(SortBy(FirstKeys(df.rows, Key), LAMBDA a, b : a < b), Row)]

\* the trace of the frame's own year alone
hemi_trace_one_year(grouped, ind, year) ==
    LET subset == filter(grouped, LAMBDA r : r["year"] = year)
    IN  [x |-> column(subset, "year"), y |-> column(subset, ind), name |-> label_map(ind)]

\* lines 384-392 and 399-406: the trace of one indicator over the years <= year
hemi_trace(grouped, ind, year) ==
    LET subset == filter(grouped, LAMBDA r : r["year"] <= year)
    IN  [x |-> column(subset, "year"), y |-> column(subset, ind), name |-> label_map(ind)]

\* lines 395-407: one frame per row of the grouped table, in the table's order
build_frames(grouped, inds) ==
    Map(column(grouped, "year"),
        LAMBDA year : [name |-> IntStr(year),
                       data |-> Map(inds, LAMBDA ind : hemi_trace(grouped, ind, year))])

\* lines 382-392: the traces first shown, those of the first year (none when the
\* table is empty: its minimum is missing and no year is <= it)
initial_traces(grouped, inds) ==
    IF grouped.rows = <<>>
    THEN Map(inds, LAMBDA ind : [x |-> <<>>, y |-> <<>>, name |-> label_map(ind)])
    ELSE Map(inds, LAMBDA ind : hemi_trace(grouped, ind, grouped.rows[1]["year"]))

\* lines 382-437: the figure of the per-year table grouped
hemi_figure(grouped, selected_inds, th, h) ==
    IF \E ind \in Range(selected_inds) : ind \notin Range(grouped.columns)
    THEN [kind |-> "update_hemi_graph", selected_inds |-> selected_inds,
          hemi |-> h, raised |-> "KeyError", read_csv |-> TRUE]
    ELSE IF h = "None"
    THEN [kind |-> "update_hemi_graph", selected_inds |-> selected_inds,
          hemi |-> h, raised |-> "AttributeError", read_csv |-> TRUE]
    ELSE [kind |-> "update_hemi_graph", selected_inds |-> selected_inds,
          hemi |-> h, raised |-> "none", read_csv |-> TRUE,
          title |-> upper(h) \o " Hemisphere - Normalized Indicators Over Time",
          template |-> template(th),
          data |-> initial_traces(grouped, selected_inds),
          frames |-> build_frames(grouped, selected_inds)]

\* the callback without the test of lines 354-358
update_hemi_graph_result_unguarded(file, selected_inds, th, h) ==
    hemi_figure(groupby_year_mean([columns |-> HemiColumns, rows |-> file]),
                selected_inds, th, h)

\* lines 353-437
update_hemi_graph_result(file, selected_inds, th, h) ==
    IF selected_inds = <<>>
    THEN [kind |-> "update_hemi_graph", selected_inds |-> selected_inds, hemi |-> h,
          raised |-> "none", read_csv |-> FALSE,
          title |-> "Please select at least one indicator to display.",
          template |-> template(th), data |-> <<>>, frames |-> <<>>]
    ELSE hemi_figure(groupby_year_mean([columns |-> HemiColumns, rows |-> file]),
                     selected_inds, th, h)

update_hemi_graph(selected_inds, th, h) ==
    /\ last' = update_hemi_graph_result(csv_hemi, selected_inds, th, h)
    /\ UNCHANGED raw_global

-----------------------------------------------------------------------------
(* The page: which callbacks Dash runs when a control changes.  The theme     *)
(* toggle's value is read at each call and not tracked: update_global takes   *)
(* it and never reads it, update_hemi_graph only names the template after it. *)

Themes == {"Light", "Dark"}
Modes == {"Monthly", "Seasonal"}
Hemispheres == {"north", "south", "None"}

\* line 80: the checklist's initial value
DefaultSelected == <<"norm_co2", "norm_land_ocean_temp">>

\* the years the slider handles are stopped at
SliderYears == {1990, 1997, 2015, 2016, 2019, 2020, 2025}

\* a checklist's value after the box of option c is clicked: a ticked option is
\* removed, an unticked one appended
toggled(value, c) ==
    IF c \in Range(value) THEN SelectSeq(value, LAMBDA d : d # c) ELSE Append(value, c)

MaxYear(df) ==
    CHOOSE y \in Range(column(df, "year")) : \A z \in Range(column(df, "year")) : z <= y

\* lines 66-122: switch_tab renders the global tab with its controls at their
\* initial values (line 80, 84, 106), and update_global runs on them
RenderGlobal ==
    /\ pc = "ready"
    /\ raw_global.rows # <<>>
    /\ tab' = "global"
    /\ selected' = DefaultSelected
    /\ year_range' = <<1993, MaxYear(raw_global)>>
    /\ mode' = "Monthly"
    /\ hemi' = "north"
    /\ hemi_value' = <<>>
    /\ update_global(selected', year_range', mode')
    /\ UNCHANGED <<pc, csv_global, csv_hemi, seasonal_avg>>

\* lines 124-159: switch_tab renders the hemisphere tab (dropdown at north, line
\* 137), refresh_hemi_checklist ticks every option and update_hemi_graph runs
RenderHemispheres ==
    /\ pc = "ready"
    /\ tab' = "hemispheres"
    /\ selected' = DefaultSelected
    /\ year_range' = <<1993, 1993>>
    /\ mode' = "Monthly"
    /\ hemi' = "north"
    /\ hemi_value' = refresh_hemi_checklist(hemi').value
    /\ \E th \in Themes : update_hemi_graph(hemi_value', th, hemi')
    /\ UNCHANGED <<pc, csv_global, csv_hemi, seasonal_avg>>

switch_tab(selected_tab) ==
    IF selected_tab = "global" THEN RenderGlobal ELSE RenderHemispheres

GlobalControl ==
    /\ update_global(selected', year_range', mode')
    /\ UNCHANGED <<pc, csv_global, csv_hemi, seasonal_avg, tab, hemi, hemi_value>>

\* a box of the global checklist is clicked
ToggleIndicator(c) ==
    /\ pc = "ready"
    /\ tab = "global"
    /\ c \in Range(selected) \/ Len(selected) < MaxSel
    /\ selected' = toggled(selected, c)
    /\ UNCHANGED <<year_range, mode>>
    /\ GlobalControl

\* the stop next to year y, above it (up) or below it; none past the ends
NextStop(y, up) ==
    LET side == {z \in SliderYears : IF up THEN z > y ELSE z < y}
    IN  IF side = {} THEN y
        ELSE CHOOSE z \in side : \A w \in side : IF up THEN z <= w ELSE z >= w

\* a handle of the range slider is moved to the next stop.  The callback gets the
\* two values as they are: nothing orders them
SlideLow(up) ==
    /\ pc = "ready"
    /\ tab = "global"
    /\ NextStop(year_range[1], up) # year_range[1]
    /\ year_range' = <<NextStop(year_range[1], up), year_range[2]>>
    /\ UNCHANGED <<selected, mode>>
    /\ GlobalControl

SlideHigh(up) ==
    /\ pc = "ready"
    /\ tab = "global"
    /\ NextStop(year_range[2], up) # year_range[2]
    /\ year_range' = <<year_range[1], NextStop(year_range[2], up)>>
    /\ UNCHANGED <<selected, mode>>
    /\ GlobalControl

SetMode(md) ==
    /\ pc = "ready"
    /\ tab = "global"
    /\ mode' = md
    /\ UNCHANGED <<selected, year_range>>
    /\ GlobalControl

\* the theme toggle is an Input of update_global and of update_hemi_graph: the one
\* whose outputs are on the page runs
SetTheme(th) ==
    /\ pc = "ready"
    /\ tab # "none"
    /\ IF tab = "global"
       THEN update_global(selected, year_range, mode)
       ELSE update_hemi_graph(hemi_value, th, hemi)
    /\ UNCHANGED <<pc, csv_global, csv_hemi, seasonal_avg, tab, selected, year_range,
                   mode, hemi, hemi_value>>

\* the export button; n_clicks 0 is the call made when the button appears, whose
\* no_update leaves the page as it is
ClickExport(n_clicks) ==
    /\ pc = "ready"
    /\ tab = "global"
    /\ export_csv(n_clicks, year_range)
    /\ UNCHANGED <<pc, csv_global, csv_hemi, seasonal_avg, tab, selected,
                   year_range, mode, hemi, hemi_value>>

\* the dropdown: refresh_hemi_checklist resets the checklist, update_hemi_graph runs
SetHemi(h) ==
    /\ pc = "ready"
    /\ tab = "hemispheres"
    /\ hemi' = h
    /\ hemi_value' = refresh_hemi_checklist(h).value
    /\ \E th \in Themes : update_hemi_graph(hemi_value', th, h)
    /\ UNCHANGED <<pc, csv_global, csv_hemi, seasonal_avg, tab, selected,
                   year_range, mode>>

\* a box of the hemisphere checklist is clicked
ToggleHemiIndicator(k) ==
    /\ pc = "ready"
    /\ tab = "hemispheres"
    /\ k <= Len(hemi_options(hemi))
    /\ hemi_value' = toggled(hemi_value, hemi_options(hemi)[k])
    /\ \E th \in Themes : update_hemi_graph(hemi_value', th, hemi)
    /\ UNCHANGED <<pc, csv_global, csv_hemi, seasonal_avg, tab, selected,
                   year_range, mode, hemi>>

-----------------------------------------------------------------------------
(* Files and initial states *)

\* one row of merged_global.csv: year, month, the four normalized indicators n
\* and their four raw companions r
GRow(y, m, n, r) ==
    ("year" :> y) @@ ("month" :> m) @@
    [c \in Range(Indicators) |-> n[CHOOSE i \in 1..4 : Indicators[i] = c]] @@
    [c \in {raw_mapping[Indicators[i]] : i \in 1..4} |->
        r[CHOOSE i \in 1..4 : raw_mapping[Indicators[i]] = c]]

Q(k) == Rat(k, 4)

\* the rows the files of the load specification are made of: two months of one
\* (year, season), two seasons of one year whose string order is not their
\* calendar order (JJA, MAM), years out of order, and a month outside 1..12
LoadCatalog ==
    { GRow(1997, 12, <<Q(0), Q(1), Q(2), Q(0)>>, <<Num(3), Num(-1), Num(5), Num(10)>>),
      GRow(1997, 1, <<Q(1), Q(2), Q(2), NaN>>, <<Num(4), Num(0), Num(5), NaN>>),
      GRow(2020, 4, <<Q(4), Q(3), Q(2), Q(3)>>, <<Num(9), Num(2), Num(5), Num(40)>>),
      GRow(2020, 6, <<Q(3), Q(4), Q(2), Q(4)>>, <<Num(8), Num(3), Num(5), Num(50)>>),
      GRow(2015, 12, <<Q(2), Q(2), Q(2), Q(2)>>, <<Num(6), Num(1), Num(5), Num(30)>>),
      GRow(2020, 11, <<Q(4), Q(4), Q(2), Q(4)>>, <<Num(9), Num(3), Num(5), Num(55)>>),
      GRow(2016, 13, <<Q(2), Q(3), Q(2), Q(2)>>, <<Num(7), Num(1), Num(5), Num(31)>>) }

LoadFiles == DistinctSeqs(LoadCatalog, MaxRows)

MonthInputs == (1 - MonthSlack)..(12 + MonthSlack)

InitControls ==
    /\ tab = "none"
    /\ selected = DefaultSelected
    /\ year_range = <<1993, 1993>>
    /\ mode = "Monthly"
    /\ hemi = "north"
    /\ hemi_value = <<>>
    /\ last = NoCall

InitLoad ==
    /\ pc = "start"
    /\ csv_global \in LoadFiles
    /\ csv_hemi = <<>>
    /\ raw_global = EmptyFrame
    /\ seasonal_avg = EmptyFrame
    /\ InitControls

\* one row of hemispheric_merged.csv: year, month and the eight normalized
\* indicators, the southern ones one quarter above the northern
HRow(y, m, v) ==
    ("year" :> y) @@ ("month" :> m) @@
    [c \in Range(hemi_options("north")) |->
        v[CHOOSE i \in 1..4 : hemi_options("north")[i] = c]] @@
    [c \in Range(hemi_options("south")) |->
        LET n == v[CHOOSE i \in 1..4 : hemi_options("south")[i] = c]
        IN  IF IsNaN(n) THEN NaN ELSE RatAdd(n, Q(1))]

\* the rows the files of the animation specification are made of: two months of
\* one year, years out of order, a missing value
HemiCatalog ==
    { HRow(2001, 1, <<Q(1), Q(2), Q(0), Q(3)>>),
      HRow(2001, 7, <<Q(2), Q(2), Q(1), NaN>>),
      HRow(2000, 3, <<Q(0), Q(1), Q(3), Q(1)>>),
      HRow(2002, 5, <<Q(3), Q(0), Q(2), Q(2)>>) }

HemiFiles == DistinctSeqs(HemiCatalog, MaxHemiRows)

\* the tables the dashboard is run on
FileA ==
    << GRow(1997, 1, <<Q(0), Q(1), Q(2), Q(0)>>, <<Num(3), Num(-1), Num(5), Num(10)>>),
       GRow(1997, 12, <<Q(1), Q(1), Q(2), Q(1)>>, <<Num(4), Num(0), Num(5), Num(11)>>),
       GRow(2015, 12, <<Q(2), Q(3), Q(2), NaN>>, <<Num(6), Num(1), Num(5), NaN>>),
       GRow(2016, 7, <<Q(3), Q(2), Q(2), Q(3)>>, <<Num(7), Num(1), Num(5), Num(31)>>),
       GRow(2020, 4, <<Q(4), Q(4), Q(2), Q(2)>>, <<Num(9), Num(2), Num(5), NaN>>),
       GRow(2020, 6, <<Q(3), Q(0), Q(2), Q(4)>>, <<Num(8), Num(3), Num(5), Num(50)>>) >>

FileB ==
    << GRow(2020, 4, <<Q(1), Q(3), Q(0), Q(1)>>, <<Num(2), Num(6), Num(0), Num(9)>>),
       GRow(1997, 12, <<Q(3), Q(1), Q(4), Q(3)>>, <<Num(6), Num(1), Num(8), Num(27)>>),
       GRow(2019, 10, <<Q(2), Q(2), Q(2), Q(2)>>, <<Num(4), Num(4), Num(4), Num(18)>>) >>

AppFiles == {FileA, FileB}

AppHemiFile ==
    << HRow(2000, 3, <<Q(0), Q(1), Q(3), Q(1)>>), HRow(2001, 1, <<Q(1), Q(2), Q(0), Q(3)>>) >>

Init ==
    /\ pc = "start"
    /\ csv_global \in AppFiles
    /\ csv_hemi = AppHemiFile
    /\ raw_global = EmptyFrame
    /\ seasonal_avg = EmptyFrame
    /\ InitControls

Next ==
    \/ Import
    \/ \E t \in {"global", "hemispheres"} : switch_tab(t)
    \/ \E c \in Range(Indicators) : ToggleIndicator(c)
    \/ \E up \in BOOLEAN : SlideLow(up)
    \/ \E up \in BOOLEAN : SlideHigh(up)
    \/ \E md \in Modes : SetMode(md)
    \/ \E th \in Themes : SetTheme(th)
    \/ \E n_clicks \in 0..MaxClicks : ClickExport(n_clicks)
    \/ \E h \in Hemispheres : SetHemi(h)
    \/ \E k \in 1..4 : ToggleHemiIndicator(k)

\* the dashboard: the import, then any sequence of control changes
Spec == Init /\ [][Next]_vars

InitHemi ==
    /\ pc = "start"
    /\ csv_global = FileB
    /\ csv_hemi \in HemiFiles
    /\ raw_global = EmptyFrame
    /\ seasonal_avg = EmptyFrame
    /\ InitControls

NextHemi ==
    \/ Import
    \/ switch_tab("hemispheres")
    \/ \E th \in Themes : SetTheme(th)
    \/ \E h \in Hemispheres : SetHemi(h)
    \/ \E k \in 1..4 : ToggleHemiIndicator(k)

\* the hemisphere tab over every file of HemiFiles
SpecHemi == InitHemi /\ [][NextHemi]_vars

NextLoad == Import \/ \E month \in MonthInputs : CallTagSeason(month)

\* the import of the module over every file of LoadFiles, and tag_season called
SpecLoad == InitLoad /\ [][NextLoad]_vars

\* the year ranges update_global is called on directly: all events inside, the
\* ends on event years, no event inside, lo > hi
CallRanges == {<<1990, 2025>>, <<1997, 2016>>, <<2016, 2019>>, <<2020, 1997>>}

InitCall ==
    /\ pc = "start"
    /\ csv_global \in AppFiles
    /\ csv_hemi = AppHemiFile
    /\ raw_global = EmptyFrame
    /\ seasonal_avg = EmptyFrame
    /\ tab = "none"
    /\ selected \in DistinctSeqs(Range(Indicators), MaxCallSel)
    /\ year_range \in CallRanges
    /\ mode \in Modes
    /\ hemi = "north"
    /\ hemi_value = <<>>
    /\ last = NoCall

NextCall == Import \/ CallUpdateGlobal \/ CallExportCsv

\* update_global called on every selection of up to MaxCallSel indicators in
\* every order, every range of CallRanges and both modes, and export_csv called
\* before and after it
SpecCall == InitCall /\ [][NextCall]_vars

-----------------------------------------------------------------------------
(* Claims about the aggregator *)

\* the month -> season table of the specification
SeasonOfMonth(m) ==
    CASE m \in {12, 1, 2} -> "DJF" [] m \in {3, 4, 5} -> "MAM"
      [] m \in {6, 7, 8} -> "JJA" [] m \in {9, 10, 11} -> "SON"

\* DJF < MAM < JJA < SON
CalendarRank(s) == CHOOSE i \in 1..4 : <<"DJF", "MAM", "JJA", "SON">>[i] = s

PairsOfFile == {<<csv_global[i]["year"], SeasonOfMonth(csv_global[i]["month"])>> :
                    i \in 1..Len(csv_global)}

\* C6: whatever the order of the rows of the file, the seasonal aggregate has
\* exactly one row per (year, season) pair of the file, ordered by year and,
\* within a year, DJF < MAM < JJA < SON.
C6_SeasonalAvgOnePerPairInCalendarOrder ==
    pc = "ready" =>
        LET rows == seasonal_avg.rows
            n == Len(rows)
        IN  /\ {<<rows[i]["year"], rows[i]["Season"]>> : i \in 1..n} = PairsOfFile
            /\ n = Cardinality(PairsOfFile)
            /\ \A i, j \in 1..n : i < j =>
                  \/ rows[i]["year"] < rows[j]["year"]
                  \/ /\ rows[i]["year"] = rows[j]["year"]
                     /\ CalendarRank(rows[i]["Season"]) < CalendarRank(rows[j]["Season"])

\* a file whose rows are out of order (2020 JJA, then 2020 MAM, then 1997) was
\* imported, and the aggregate lists 1997, then MAM 2020, then JJA 2020
C6_Witness ==
    /\ pc = "ready"
    /\ Len(csv_global) = 3
    /\ <<csv_global[1]["year"], csv_global[1]["month"]>> = <<2020, 6>>
    /\ <<csv_global[2]["year"], csv_global[2]["month"]>> = <<2020, 4>>
    /\ csv_global[3]["year"] = 1997
    /\ Len(seasonal_avg.rows) = 3
    /\ seasonal_avg.rows[2]["Season"] = "MAM"
    /\ seasonal_avg.rows[3]["Season"] = "JJA"

\* C7: tag_season returns the season of the fixed table for every month 1..12 and
\* raises (KeyError, the InvalidInput of the specification) for every other integer.
C7_TagSeasonTotalOnMonthsElseRaises ==
    last.kind = "tag_season" =>
        IF last.month \in 1..12
        THEN /\ last.result.ok
             /\ last.result.val \in Seasons
             /\ last.result.val = SeasonOfMonth(last.month)
        ELSE /\ ~last.result.ok
             /\ last.result.val = "KeyError"

\* tag_season was called with 13 and raised
C7_Witness ==
    /\ last.kind = "tag_season"
    /\ last.month = 13
    /\ last.result = Raise("KeyError")

-----------------------------------------------------------------------------
(* Claims about update_global *)

\* the event catalog of the specification, each with the first day of its month
\* and with its label on the seasonal axis
EventCatalog ==
    { [label |-> "Kyoto Protocol", year |-> 1997, date |-> "1997-12-01", axis |-> "DJF 1997"],
      [label |-> "Paris Agreement", year |-> 2015, date |-> "2015-12-01", axis |-> "DJF 2015"],
      [label |-> "COVID Drop", year |-> 2020, date |-> "2020-04-01", axis |-> "MAM 2020"] }

Returned == last.kind = "update_global" /\ last.raised = "none"

AnnotationsOf(e) == {i \in 1..Len(last.annotations) : last.annotations[i].text = e.label}

\* C1: raw_global and seasonal_avg stay, in columns and in cells, what the import
\* made them, whatever callbacks run.
C1_SourceTablesReadOnlyAfterLoad ==
    pc = "ready" =>
        /\ raw_global = load_raw_global(csv_global)
        /\ seasonal_avg = build_seasonal_avg(load_raw_global(csv_global))

\* C2: what update_global returns is a function of (selected, year_range, mode) and
\* the file alone: after any history it is what the same call returns on the tables
\* as imported, so two calls with the same inputs return the same frame and
\* annotations.
C2_UpdateGlobalIndependentOfHistory ==
    last.kind = "update_global" =>
        last = update_global_result(load_raw_global(csv_global),
                                    build_seasonal_avg(load_raw_global(csv_global)),
                                    last.selected, last.year_range, last.mode)

\* update_global ran in Monthly mode on a raw_global that an earlier call had
\* written its X column of season labels into, and returned rows
C2_Witness ==
    /\ Returned
    /\ last.mode = "Monthly"
    /\ last.year_range = <<1990, 2025>>
    /\ last.selected = <<"norm_land_temp">>
    /\ "X" \in Range(raw_global.columns)
    /\ Len(last.plot_df.rows) = Len(csv_global)

\* C3: with lo > hi, in either mode and for every selection, update_global returns
\* (raises nothing) a frame of no rows and no annotation.
C3_InvertedRangeGivesEmptyFrameNoAnnotation ==
    (last.kind = "update_global" /\ last.year_range[1] > last.year_range[2]) =>
        /\ last.raised = "none"
        /\ last.plot_df.rows = <<>>
        /\ last.annotations = <<>>

\* update_global ran in Seasonal mode on the range [2020, 1997], whose years both
\* hold rows of the table
C3_Witness ==
    /\ Returned
    /\ last.mode = "Seasonal"
    /\ last.year_range = <<2020, 1997>>
    /\ Len(last.selected) = 2
    /\ last.plot_df.rows = <<>>

\* C4: in Monthly mode an event of the catalog is annotated exactly when
\* lo <= its year <= hi, once, at its own year and month, and nothing else is.
C4_MonthlyAnnotationIffYearInRange ==
    (Returned /\ last.mode = "Monthly") =>
        /\ \A e \in EventCatalog :
              /\ AnnotationsOf(e) # {} <=>
                    (last.year_range[1] <= e.year /\ e.year <= last.year_range[2])
              /\ Cardinality(AnnotationsOf(e)) <= 1
              /\ \A i \in AnnotationsOf(e) : last.annotations[i].x = e.date
        /\ \A i \in 1..Len(last.annotations) :
              \E e \in EventCatalog : last.annotations[i].text = e.label
        /\ last.year_range = <<2016, 2019>> => last.annotations = <<>>

\* the range [1990, 2025] in Monthly mode: Kyoto at December 1997, COVID at April 2020
C4_Witness ==
    /\ Returned
    /\ last.mode = "Monthly"
    /\ last.year_range = <<1990, 2025>>
    /\ last.selected = <<"norm_co2", "norm_land_ocean_temp">>
    /\ \E i, j \in 1..Len(last.annotations) :
          /\ last.annotations[i] = [x |-> "1997-12-01", text |-> "Kyoto Protocol"]
          /\ last.annotations[j] = [x |-> "2020-04-01", text |-> "COVID Drop"]

\* C5: in Seasonal mode an event of the catalog is annotated exactly when its
\* season label is an axis value of the returned frame, and then at that label.
C5_SeasonalAnnotationIffLabelOnAxis ==
    (Returned /\ last.mode = "Seasonal") =>
        /\ \A e \in EventCatalog :
              /\ AnnotationsOf(e) # {} <=>
                    (\E k \in 1..Len(last.plot_df.rows) : last.plot_df.rows[k]["X"] = e.axis)
              /\ \A i \in AnnotationsOf(e) : last.annotations[i].x = e.axis
        /\ \A i \in 1..Len(last.annotations) :
              \E e \in EventCatalog : last.annotations[i].text = e.label

\* Seasonal mode over [1990, 2025] with the sea level selected: DJF 1997 is on the
\* axis and annotated; DJF 2015 and MAM 2020 are in range but their rows are
\* incomplete and removed, and they are not annotated
C5_Witness ==
    /\ Returned
    /\ last.mode = "Seasonal"
    /\ last.year_range = <<1990, 2025>>
    /\ last.selected = <<"norm_sea_level">>
    /\ last.annotations = <<[x |-> "DJF 1997", text |-> "Kyoto Protocol"]>>
    /\ \E i \in 1..Len(seasonal_avg.rows) :
          seasonal_avg.rows[i]["year"] = 2015 /\ seasonal_avg.rows[i]["Season"] = "DJF"

ColumnOf(c) == [k \in 1..Len(last.plot_df.rows) |-> last.plot_df.rows[k][c]]

\* the coefficient of a pair is undefined: fewer than two rows, or a column that
\* does not vary
Undefined(a, b) ==
    \/ Len(last.plot_df.rows) < 2
    \/ \E c \in {a, b} : \A k \in 1..Len(last.plot_df.rows) : ColumnOf(c)[k] = ColumnOf(c)[1]

\* C10: a pair whose coefficient is undefined gets the "correlation unavailable"
\* entry, never a line with r = nan and a strength and direction.
C10_UndefinedCorrelationIsUnavailable ==
    Returned =>
        \A i \in 1..Len(last.corr_texts) :
            Undefined(last.corr_texts[i].a, last.corr_texts[i].b) =>
                last.corr_texts[i].text = "correlation unavailable"

\* the raw companion of a normalized indicator
Companion(c) ==
    CASE c = "norm_co2" -> "co2_anomaly"
      [] c = "norm_land_ocean_temp" -> "land_ocean_anomaly"
      [] c = "norm_land_temp" -> "land_anomaly"
      [] c = "norm_sea_level" -> "msl_mm"

\* the columns a row must have a value in: the selected and their companions
Needed == Range(last.selected) \cup {Companion(c) : c \in Range(last.selected)}

\* the rows of the table of the mode that are in the year range and have a value
\* in every needed column, in the table's order
CompleteRows ==
    SelectSeq(IF last.mode = "Monthly" THEN raw_global.rows ELSE seasonal_avg.rows,
              LAMBDA r : /\ last.year_range[1] <= r["year"]
                         /\ r["year"] <= last.year_range[2]
                         /\ \A c \in Needed : r[c] # NaN)

\* C12: the plot frame is exactly the rows of the year-filtered table (monthly, or
\* seasonal means) that have a value in every selected column and every raw
\* companion, in the table's order and with the table's values.
C12_PlotFrameIsTheCompleteRows ==
    Returned =>
        /\ Len(last.plot_df.rows) = Len(CompleteRows)
        /\ Range(last.plot_df.columns) = {"X", "year"} \cup Needed
        /\ \A i \in 1..Len(last.plot_df.rows) :
              /\ DOMAIN last.plot_df.rows[i] = {"X", "year"} \cup Needed
              /\ last.plot_df.rows[i]["year"] = CompleteRows[i]["year"]
              /\ \A c \in Needed :
                    /\ last.plot_df.rows[i][c] = CompleteRows[i][c]
                    /\ last.plot_df.rows[i][c] # NaN
              /\ last.mode = "Monthly" => last.plot_df.rows[i]["X"] = CompleteRows[i]["Date"]

\* Monthly over [1990, 2025] with CO2 and the sea level selected, on the table of
\* six rows: December 2015 lacks the sea level and April 2020 its raw companion,
\* and the frame is the other four rows
C12_Witness ==
    /\ Returned
    /\ last.mode = "Monthly"
    /\ last.year_range = <<1990, 2025>>
    /\ last.selected = <<"norm_co2", "norm_sea_level">>
    /\ Len(csv_global) = 6
    /\ csv_global[3]["norm_sea_level"] = NaN
    /\ csv_global[5]["msl_mm"] = NaN /\ csv_global[5]["norm_sea_level"] # NaN
    /\ [i \in 1..Len(last.plot_df.rows) |-> last.plot_df.rows[i]["X"]] =
          <<"1997-01-15", "1997-12-15", "2016-07-15", "2020-06-15">>

\* the place of the index pair (i, j) among the pairs i < j of 1..n, i outer
PairPlace(n, i, j) ==
    Cardinality({p \in (1..n) \X (1..n) :
                    p[1] < p[2] /\ (p[1] < i \/ (p[1] = i /\ p[2] <= j))})

\* C11: for a selection of n distinct indicators the correlation summary has
\* n*(n-1)/2 entries, the pair (selected[i], selected[j]) with i < j at the place
\* of (i, j) in the order i outer, j inner; one indicator or none gives no entry.
C11_OneEntryPerPairInIndexOrder ==
    Returned =>
        LET n == Len(last.selected)
        IN  /\ 2 * Len(last.corr_texts) = n * (n - 1)
            /\ n <= 1 => last.corr_texts = <<>>
            /\ \A i, j \in 1..n : i < j =>
                  /\ last.corr_texts[PairPlace(n, i, j)].a = last.selected[i]
                  /\ last.corr_texts[PairPlace(n, i, j)].b = last.selected[j]

\* four indicators selected, not in the checklist's order: six entries, the third
\* pairing the first with the fourth, the fourth pairing the second with the third
C11_Witness ==
    /\ Returned
    /\ last.selected = <<"norm_sea_level", "norm_co2", "norm_land_temp", "norm_land_ocean_temp">>
    /\ Len(last.corr_texts) = 6
    /\ <<last.corr_texts[3].a, last.corr_texts[3].b>> = <<"norm_sea_level", "norm_land_ocean_temp">>
    /\ <<last.corr_texts[4].a, last.corr_texts[4].b>> = <<"norm_co2", "norm_land_temp">>

-----------------------------------------------------------------------------
(* Claims about export_csv *)

\* the columns of the source file: year, month, the normalized indicators and the
\* raw ones
SourceColumns ==
    {"year", "month", "norm_co2", "norm_land_ocean_temp", "norm_land_temp",
     "norm_sea_level", "co2_anomaly", "land_ocean_anomaly", "land_anomaly", "msl_mm"}

\* the rows of the file with lo <= year <= hi, in the file's order
SourceRowsInRange ==
    SelectSeq(csv_global, LAMBDA r : /\ last.year_range[1] <= r["year"]
                                     /\ r["year"] <= last.year_range[2])

\* C13: after a click export_csv emits exactly the rows of the source with
\* lo <= year <= hi, each with the values the source holds, whatever callbacks
\* ran before.
C13_ExportIsTheSourceRowsInRange ==
    last.kind = "export_csv" =>
        /\ last.filename = "filtered_climate_data.csv"
        /\ Len(last.export_df.rows) = Len(SourceRowsInRange)
        /\ \A i \in 1..Len(last.export_df.rows) :
              \A c \in SourceColumns :
                  /\ c \in DOMAIN last.export_df.rows[i]
                  /\ last.export_df.rows[i][c] = SourceRowsInRange[i][c]

\* an export of [1997, 2016] made after update_global had written its columns
\* into raw_global: the four rows of 1997 to 2016 out of the six of the file,
\* those of both end years among them
C13_Witness ==
    /\ last.kind = "export_csv"
    /\ last.year_range = <<1997, 2016>>
    /\ "X" \in Range(raw_global.columns)
    /\ Len(csv_global) = 6
    /\ [i \in 1..Len(last.export_df.rows) |-> last.export_df.rows[i]["year"]] =
          <<1997, 1997, 2015, 2016>>
    /\ last.export_df.rows[3]["msl_mm"] = NaN

-----------------------------------------------------------------------------
(* Claims about the animation frames *)

HemiReturned ==
    last.kind = "update_hemi_graph" /\ last.raised = "none" /\ last.selected_inds # <<>>

\* the per-year table of the file
PerYear == groupby_year_mean([columns |-> HemiColumns, rows |-> csv_hemi])

YearsOfFile == {csv_hemi[i]["year"] : i \in 1..Len(csv_hemi)}

\* the name of a frame, for the years of HemiCatalog
YearName(y) == CASE y = 2000 -> "2000" [] y = 2001 -> "2001" [] y = 2002 -> "2002"

\* the (year, value) points of the trace t
Points(t) == {<<t.x[j], t.y[j]>> : j \in 1..Len(t.x)}

\* C8: one frame per distinct year of the table, in ascending order of year and
\* named by it, holding for each selected indicator exactly the points of the
\* rows with year <= the frame's year.
C8_OneFramePerYearAscendingCumulative ==
    HemiReturned =>
        LET frames == last.frames
            Below(k) == {y \in YearsOfFile : Cardinality({z \in YearsOfFile : z < y}) < k}
        IN  /\ Len(frames) = Cardinality(YearsOfFile)
            /\ \A k \in 1..Len(frames) :
                  LET Y == CHOOSE y \in YearsOfFile :
                               Cardinality({z \in YearsOfFile : z < y}) = k - 1
                  IN  /\ frames[k].name = YearName(Y)
                      /\ Len(frames[k].data) = Len(last.selected_inds)
                      /\ \A i \in 1..Len(last.selected_inds) :
                            /\ Len(frames[k].data[i].x) = Len(frames[k].data[i].y)
                            /\ Len(frames[k].data[i].x) = Cardinality(Below(k))
                            /\ Points(frames[k].data[i]) =
                                  {<<r["year"], r[last.selected_inds[i]]>> :
                                      r \in {q \in Range(PerYear.rows) : q["year"] <= Y}}

\* a file of three rows, 2001 before 2000 before 2001 again: two frames, the
\* first named 2000
C8_Witness ==
    /\ HemiReturned
    /\ Len(csv_hemi) = 3
    /\ <<csv_hemi[1]["year"], csv_hemi[2]["year"], csv_hemi[3]["year"]>> = <<2001, 2000, 2001>>
    /\ Len(last.selected_inds) = 4
    /\ Len(last.frames) = 2
    /\ last.frames[1].name = "2000"
    /\ last.frames[2].data[1].x = <<2000, 2001>>

\* C9: every point of a frame's series is a point of the next frame's series of
\* the same indicator.
C9_FramesGrowMonotonically ==
    HemiReturned =>
        \A k \in 1..(Len(last.frames) - 1) :
            \A i \in 1..Len(last.selected_inds) :
                Points(last.frames[k].data[i]) \subseteq Points(last.frames[k + 1].data[i])

\* three frames, each one point longer than the one before
C9_Witness ==
    /\ HemiReturned
    /\ Len(last.frames) = 3
    /\ Len(last.selected_inds) = 2
    /\ \A k \in 1..3 : Cardinality(Points(last.frames[k].data[1])) = k

\* C14: on an empty selection update_hemi_graph returns the placeholder figure: its
\* title says nothing is selected, it has no trace and no frame, the hemispheric
\* file was not read and the hemisphere value was not dereferenced (a cleared
\* dropdown raises nothing).
C14_EmptySelectionGivesPlaceholder ==
    (last.kind = "update_hemi_graph" /\ last.selected_inds = <<>>) =>
        /\ last.raised = "none"
        /\ last.title = "Please select at least one indicator to display."
        /\ last.data = <<>>
        /\ last.frames = <<>>
        /\ ~last.read_csv

\* the dropdown was cleared on a file with rows: the checklist is emptied and
\* update_hemi_graph, called with no indicator and no hemisphere, returned
C14_Witness ==
    /\ last.kind = "update_hemi_graph"
    /\ last.selected_inds = <<>>
    /\ last.hemi = "None"
    /\ hemi = "None"
    /\ Len(csv_hemi) = 3
    /\ last.raised = "none"
    /\ last.frames = <<>>

=============================================================================
